---- MODULE Spec2Model ----
(***************************************************************************)
(* A model of torchseal's LeakChecker (src/torchseal/torchseal.py).        *)
(*                                                                         *)
(* The heap is the list of objects the garbage collector tracks, in the    *)
(* order gc.get_objects() enumerates them.  Two LeakChecker instances,     *)
(* "a" and "b", watch the same heap.  The client allocates, frees and      *)
(* reshapes tensors and calls exclude_tensors_from_report and check_leaks. *)
(***************************************************************************)
EXTENDS Naturals, Integers, Sequences, FiniteSets, TLC

\* ------------------------------------------------------------------ bounds
NumIds == 4        \* object identities (addresses) the runtime hands out: 1..NumIds
MaxDim == 2        \* a tensor is 1-D with 1..MaxDim elements: its shape is <<d>>
MaxArgs == 2       \* tensors passed to one exclude_tensors_from_report call
MaxSteps == 6      \* heap operations and checker calls in one run

Ids == 1..NumIds
Shapes == {<<d>> : d \in 1..MaxDim}
Checkers == {"a", "b"}

VARIABLES
    heap,              \* Seq of [id, kind, shape]: what gc.get_objects() enumerates
    original_tensors,  \* per checker: <<>> (None) or <<set of ids>>
    error_on_leak,     \* per checker: BOOLEAN
    excluded_tensors,  \* per checker: dict id -> shape (a function on its keys)
    out,               \* per checker: its last call, and what it printed, raised and warned
    called,            \* history: per checker, check_leaks has been called
    exclAt,            \* history: per checker, live id -> its shape when last excluded
    fresh,             \* history: per checker, live ids allocated after its baseline
    idsUsed,           \* identities 1..idsUsed have been handed out so far
    steps

vars == <<heap, original_tensors, error_on_leak, excluded_tensors, out, called,
          exclAt, fresh, idsUsed, steps>>

\* ------------------------------------------------------------- the heap
None == <<>>
Some(x) == <<x>>

LiveIds == {heap[k].id : k \in 1..Len(heap)}
ObjAt(i) == heap[CHOOSE k \in 1..Len(heap) : heap[k].id = i]
EmptyDict == [i \in {} |-> <<>>]

\* torch.is_tensor(object_)
is_tensor(object_) == object_.kind = "tensor"

\* hasattr(object_, 'data')
hasattr_data(object_) == object_.kind \in {"tensor", "wrapper"}

\* probing the object (torch.is_tensor, hasattr) raises
ProbeRaises(object_) == object_.kind = "hostile"

\* (mutant) the probe is not wrapped in try/except
Swallows_No == FALSE

\* except: pass -- the bare except takes every error of the probe
Swallows == TRUE

\* an error of a probe leaves _get_tensors
ScanFails == ~Swallows /\ \E k \in 1..Len(heap) : ProbeRaises(heap[k])

\* the test of the scan loop, as written: the second operand of `or` probes
\* object_ again, not object_.data; an object whose probe raises is passed over
IsScanned(object_) ==
    /\ ~ProbeRaises(object_)
    /\ is_tensor(object_) \/ (hasattr_data(object_) /\ is_tensor(object_))

\* LeakChecker._get_tensors
get_tensors == SelectSeq(heap, IsScanned)

\* [id(tensor) for tensor in tensors]
IdsOf(tensors) == [k \in 1..Len(tensors) |-> tensors[k].id]
IdSet(tensors) == {tensors[k].id : k \in 1..Len(tensors)}

\* ------------------------------------------------------------- __init__
\* (mutant) the baseline starts as an empty set
InitOriginal_EmptySet == Some({})

\* self.original_tensors = None
InitOriginal == None

\* the state after LeakChecker(error_on_leak=e[c]) for every checker c
Constructed(e) ==
    /\ original_tensors = [c \in Checkers |-> InitOriginal]
    /\ error_on_leak = e
    /\ excluded_tensors = [c \in Checkers |-> EmptyDict]

\* out[c] describes the last call on checker c while nothing has happened since:
\*   op        "check_leaks", "exclude", or "none" once the heap has changed
\*   first     the call was the first check_leaks call on c
\*   again     the call before it, with nothing in between, was a check_leaks call
\*   args      the tensors passed to exclude_tensors_from_report
\*   replaced  those of args whose registry entry held another shape
\*   failed    the call ended with an error of the heap scan
\*   printed   what print() wrote
\*   raised    None, or Some(message of the MemoryLeakError)
\*   warnings  the messages of the MemoryLeakWarnings, in order
NoCall ==
    [op |-> "none", first |-> FALSE, again |-> FALSE, args |-> {}, replaced |-> {},
     failed |-> FALSE, printed |-> <<>>, raised |-> None, warnings |-> <<>>]

\* no tensor exists yet when the checkers are built
InitHeap ==
    /\ heap = <<>>
    /\ idsUsed = 0
    /\ out = [c \in Checkers |-> NoCall]
    /\ called = [c \in Checkers |-> FALSE]
    /\ exclAt = [c \in Checkers |-> EmptyDict]
    /\ fresh = [c \in Checkers |-> {}]
    /\ steps = 0

\* checker "a" is built in either mode, checker "b" with the default argument
Init ==
    /\ InitHeap
    /\ \E e \in BOOLEAN : Constructed([c \in Checkers |-> IF c = "a" THEN e ELSE TRUE])

\* ------------------------------------------------------- _raise_exception
\* one entry of the message: the tensor's shape and id lines
Entry(tensor) == [shape |-> tensor.shape, id |-> tensor.id]

\* message += ... for tensor in tensors
Message(tensors) == [k \in 1..Len(tensors) |-> Entry(tensors[k])]

\* LeakChecker._raise_exception: TRUE when it raises, FALSE when it warns
Raises(c) == error_on_leak[c]

\* ------------------------------------------------------------ is_excluded
\* (mutant) an entry with the tensor's identity excludes it, whatever its shape
is_excluded_IdOnly(c, tensor) == tensor.id \in DOMAIN excluded_tensors[c]

\* (mutant) the comparison of the shapes is inverted
is_excluded_Inverted(c, tensor) ==
    IF tensor.id \notin DOMAIN excluded_tensors[c]
    THEN FALSE
    ELSE tensor.shape # excluded_tensors[c][tensor.id]

is_excluded(c, tensor) ==
    IF tensor.id \notin DOMAIN excluded_tensors[c]
    THEN FALSE
    ELSE IF tensor.shape = excluded_tensors[c][tensor.id] THEN TRUE ELSE FALSE

\* ------------------------------------------------------------ check_leaks
\* self.original_tensors is None
IsUninitialized(c) == original_tensors[c] = None

Baseline(c) == original_tensors[c][1]

\* (mutant) the baseline is not consulted
IsLeak_NoBaseline(c, tensor) == ~is_excluded(c, tensor)

\* id(tensor) not in self.original_tensors and not self.is_excluded(tensor)
IsLeak(c, tensor) == tensor.id \notin Baseline(c) /\ ~is_excluded(c, tensor)

\* (mutant) the diff runs whatever the counts are
DiffRuns_Always(c, tensors) == TRUE

\* len(tensors) != len(self.original_tensors)
DiffRuns(c, tensors) == Len(tensors) # Cardinality(Baseline(c))

\* (mutant) the loop ends after its first report, in warning mode too
RECURSIVE ScanLoop_StopsAtFirst(_, _, _, _, _)
ScanLoop_StopsAtFirst(c, tensors, k, leaked_tensors, warned) ==
    IF k > Len(tensors)
    THEN [raised |-> None, warnings |-> warned]
    ELSE LET tensor == tensors[k]
             leaked == IF IsLeak(c, tensor)
                       THEN Append(leaked_tensors, tensor)
                       ELSE leaked_tensors
         IN IF Len(leaked) > 0
            THEN IF Raises(c)
                 THEN [raised |-> Some(Message(leaked)), warnings |-> warned]
                 ELSE [raised |-> None, warnings |-> Append(warned, Message(leaked))]
            ELSE ScanLoop_StopsAtFirst(c, tensors, k + 1, leaked, warned)

\* the loop of check_leaks from its k-th tensor on: the report is made inside
\* the loop, once per iteration in which leaked_tensors is non-empty
RECURSIVE ScanLoop(_, _, _, _, _)
ScanLoop(c, tensors, k, leaked_tensors, warned) ==
    IF k > Len(tensors)
    THEN [raised |-> None, warnings |-> warned]
    ELSE LET tensor == tensors[k]
             leaked == IF IsLeak(c, tensor)
                       THEN Append(leaked_tensors, tensor)
                       ELSE leaked_tensors
         IN IF Len(leaked) > 0
            THEN IF Raises(c)
                 THEN [raised |-> Some(Message(leaked)), warnings |-> warned]
                 ELSE ScanLoop(c, tensors, k + 1, leaked,
                               Append(warned, Message(leaked)))
            ELSE ScanLoop(c, tensors, k + 1, leaked, warned)

\* what one check_leaks call on checker c prints, raises and warns
CheckOutcome(c) ==
    LET tensors == get_tensors
    IN IF ScanFails
       THEN [failed |-> TRUE, printed |-> <<>>, raised |-> None, warnings |-> <<>>]
       ELSE IF IsUninitialized(c)
       THEN [failed |-> FALSE, printed |-> IdsOf(tensors),
             raised |-> None, warnings |-> <<>>]
       ELSE IF DiffRuns(c, tensors)
            THEN LET r == ScanLoop(c, tensors, 1, <<>>, <<>>)
                 IN [failed |-> FALSE, printed |-> <<>>,
                     raised |-> r.raised, warnings |-> r.warnings]
            ELSE [failed |-> FALSE, printed |-> <<>>,
                  raised |-> None, warnings |-> <<>>]

\* (mutant) every call records the current scan as the baseline
OriginalAfterCheck_Rebaseline(c) == Some(IdSet(get_tensors))

\* (mutant) a verifying call adds what it scanned to the baseline
OriginalAfterCheck_Absorb(c) ==
    IF IsUninitialized(c) THEN Some(IdSet(get_tensors))
    ELSE Some(Baseline(c) \cup IdSet(get_tensors))

\* self.original_tensors after the call
OriginalAfterCheck(c) ==
    IF IsUninitialized(c) /\ ~ScanFails
    THEN Some(IdSet(get_tensors))
    ELSE original_tensors[c]

\* (mutant) check_leaks drops the registry entries of collected tensors
CheckLeaks_Prunes(CS) ==
    /\ steps < MaxSteps
    /\ steps' = steps + 1
    /\ original_tensors' = [c \in Checkers |->
           IF c \in CS THEN OriginalAfterCheck(c) ELSE original_tensors[c]]
    /\ out' = [c \in Checkers |->
           IF c \in CS
           THEN LET r == CheckOutcome(c)
                IN [op |-> "check_leaks", first |-> ~called[c],
                    again |-> out[c].op = "check_leaks", args |-> {}, replaced |-> {},
                    failed |-> r.failed,
                    printed |-> r.printed, raised |-> r.raised, warnings |-> r.warnings]
           ELSE out[c]]
    /\ called' = [c \in Checkers |-> called[c] \/ c \in CS]
    /\ excluded_tensors' = [c \in Checkers |->
           IF c \in CS
           THEN [i \in DOMAIN excluded_tensors[c] \cap LiveIds |-> excluded_tensors[c][i]]
           ELSE excluded_tensors[c]]
    /\ UNCHANGED <<heap, error_on_leak, exclAt, fresh, idsUsed>>

\* check_leaks called on every checker of CS, against the same heap
CheckLeaks(CS) ==
    /\ steps < MaxSteps
    /\ steps' = steps + 1
    /\ original_tensors' = [c \in Checkers |->
           IF c \in CS THEN OriginalAfterCheck(c) ELSE original_tensors[c]]
    /\ out' = [c \in Checkers |->
           IF c \in CS
           THEN LET r == CheckOutcome(c)
                IN [op |-> "check_leaks", first |-> ~called[c],
                    again |-> out[c].op = "check_leaks", args |-> {}, replaced |-> {},
                    failed |-> r.failed,
                    printed |-> r.printed, raised |-> r.raised, warnings |-> r.warnings]
           ELSE out[c]]
    /\ called' = [c \in Checkers |-> called[c] \/ c \in CS]
    /\ UNCHANGED <<heap, error_on_leak, excluded_tensors, exclAt, fresh, idsUsed>>

\* ---------------------------------------------- exclude_tensors_from_report
\* (mutant) an identity that has an entry keeps it (setdefault)
ExcludedAfter_KeepOld(d, args) ==
    [i \in DOMAIN d \cup args |-> IF i \in DOMAIN d THEN d[i] ELSE ObjAt(i).shape]

\* (mutant) the registry is rebuilt from the arguments of the call
ExcludedAfter_Reset(d, args) == [i \in args |-> ObjAt(i).shape]

\* self.excluded_tensors after exclude_tensors_from_report(*args); args are
\* live tensors, given by their ids
ExcludedAfter(d, args) ==
    [i \in DOMAIN d \cup args |-> IF i \in args THEN ObjAt(i).shape ELSE d[i]]

ArgSets == {A \in SUBSET LiveIds : Cardinality(A) <= MaxArgs}

\* (mutant) excluded_tensors is one dict shared by all instances
Exclude_SharedRegistry(CS, args) ==
    /\ steps < MaxSteps
    /\ steps' = steps + 1
    /\ excluded_tensors' = [c \in Checkers |->
           ExcludedAfter(excluded_tensors[c], args)]
    /\ exclAt' = [c \in Checkers |->
           IF c \in CS
           THEN [i \in DOMAIN exclAt[c] \cup args |->
                    IF i \in args THEN ObjAt(i).shape ELSE exclAt[c][i]]
           ELSE exclAt[c]]
    /\ out' = [c \in Checkers |->
           IF c \in CS
           THEN [NoCall EXCEPT !.op = "exclude", !.args = args,
                    !.replaced = {i \in args \cap DOMAIN excluded_tensors[c] :
                                     excluded_tensors[c][i] # ObjAt(i).shape}]
           ELSE out[c]]
    /\ UNCHANGED <<heap, original_tensors, error_on_leak, called, fresh, idsUsed>>

Exclude(CS, args) ==
    /\ steps < MaxSteps
    /\ steps' = steps + 1
    /\ excluded_tensors' = [c \in Checkers |->
           IF c \in CS THEN ExcludedAfter(excluded_tensors[c], args)
           ELSE excluded_tensors[c]]
    /\ exclAt' = [c \in Checkers |->
           IF c \in CS
           THEN [i \in DOMAIN exclAt[c] \cup args |->
                    IF i \in args THEN ObjAt(i).shape ELSE exclAt[c][i]]
           ELSE exclAt[c]]
    /\ out' = [c \in Checkers |->
           IF c \in CS
           THEN [NoCall EXCEPT !.op = "exclude", !.args = args,
                    !.replaced = {i \in args \cap DOMAIN excluded_tensors[c] :
                                     excluded_tensors[c][i] # ObjAt(i).shape}]
           ELSE out[c]]
    /\ UNCHANGED <<heap, original_tensors, error_on_leak, called, fresh, idsUsed>>

\* ------------------------------------------------------ the client's heap
Without(d, i) == [j \in DOMAIN d \ {i} |-> d[j]]

HeapStep ==
    /\ steps < MaxSteps
    /\ steps' = steps + 1
    /\ out' = [c \in Checkers |-> NoCall]
    /\ UNCHANGED <<original_tensors, error_on_leak, excluded_tensors, called>>

\* a new tensor: the runtime gives it an identity no live object has, either
\* one a collected object had or the next one never handed out (identities
\* never handed out are interchangeable)
Alloc(i, s) ==
    /\ i \notin LiveIds
    /\ i <= idsUsed + 1
    /\ idsUsed' = IF i > idsUsed THEN i ELSE idsUsed
    /\ HeapStep
    /\ heap' = Append(heap, [id |-> i, kind |-> "tensor", shape |-> s])
    /\ fresh' = [c \in Checkers |->
           IF IsUninitialized(c) THEN fresh[c] ELSE fresh[c] \cup {i}]
    /\ UNCHANGED exclAt

\* a new object that is no tensor: a wrapper holds a tensor in its `data`
\* attribute, the probe of a hostile object raises, any other object is plain
OtherKinds == {"wrapper", "hostile", "plain"}

AllocObject(i, kind) ==
    /\ i \notin LiveIds
    /\ i <= idsUsed + 1
    /\ idsUsed' = IF i > idsUsed THEN i ELSE idsUsed
    /\ HeapStep
    /\ heap' = Append(heap, [id |-> i, kind |-> kind, shape |-> <<>>])
    /\ UNCHANGED <<exclAt, fresh>>

\* the object is collected; its identity may be handed out again
Free(i) ==
    /\ i \in LiveIds
    /\ HeapStep
    /\ heap' = SelectSeq(heap, LAMBDA o : o.id # i)
    /\ fresh' = [c \in Checkers |-> fresh[c] \ {i}]
    /\ exclAt' = [c \in Checkers |-> Without(exclAt[c], i)]
    /\ UNCHANGED idsUsed

\* an in-place change of shape (resize_, unsqueeze_, ...): same object, same id
Reshape(i, s) ==
    /\ i \in LiveIds
    /\ ObjAt(i).shape # s
    /\ HeapStep
    /\ heap' = [k \in 1..Len(heap) |->
           IF heap[k].id = i THEN [heap[k] EXCEPT !.shape = s] ELSE heap[k]]
    /\ UNCHANGED <<exclAt, fresh, idsUsed>>

HeapOp ==
    \/ \E i \in Ids, s \in Shapes : Alloc(i, s)
    \/ \E i \in Ids : Free(i)
    \/ \E i \in Ids, s \in Shapes : Reshape(i, s)

\* ---------------------------------------------------------- specifications
\* one client working with checker "a"
Next ==
    \/ HeapOp
    \/ \E args \in ArgSets : Exclude({"a"}, args)
    \/ CheckLeaks({"a"})

Spec == Init /\ [][Next]_vars

\* an error-mode checker "a" and a warning-mode checker "b" given the same calls
InitPair ==
    /\ InitHeap
    /\ Constructed([c \in Checkers |-> c = "a"])

NextPair ==
    \/ HeapOp
    \/ \E args \in ArgSets : Exclude(Checkers, args)
    \/ CheckLeaks(Checkers)

SpecPair == InitPair /\ [][NextPair]_vars

\* two clients, each with a checker of its own, on the same heap; their runs
\* are one step shorter
Shorter == steps + 1 < MaxSteps

NextTwo ==
    \/ Shorter /\ HeapOp
    \/ \E c \in Checkers, args \in ArgSets : Shorter /\ Exclude({c}, args)
    \/ \E c \in Checkers : Shorter /\ CheckLeaks({c})

SpecTwo == Init /\ [][NextTwo]_vars

\* a heap that also holds objects that are no tensors, scanned by checker "a"
NextScan ==
    \/ \E i \in Ids, s \in Shapes : Alloc(i, s)
    \/ \E i \in Ids, kind \in OtherKinds : AllocObject(i, kind)
    \/ \E i \in Ids : Free(i)
    \/ CheckLeaks({"a"})

SpecScan == Init /\ [][NextScan]_vars

\* the checkers are built while one or two tensors are already alive
InitLive ==
    /\ \E n \in 1..2 : \E sh \in [1..n -> Shapes] :
           /\ heap = [i \in 1..n |-> [id |-> i, kind |-> "tensor", shape |-> sh[i]]]
           /\ idsUsed = n
    /\ out = [c \in Checkers |-> NoCall]
    /\ called = [c \in Checkers |-> FALSE]
    /\ exclAt = [c \in Checkers |-> EmptyDict]
    /\ fresh = [c \in Checkers |-> {}]
    /\ steps = 0
    /\ \E e \in BOOLEAN : Constructed([c \in Checkers |-> IF c = "a" THEN e ELSE TRUE])

SpecLive == InitLive /\ [][Next]_vars

\* ------------------------------------------------------------------ claims
\* the messages the last call on c signalled: the error's, then the warnings'
Signals(c) == out[c].raised \o out[c].warnings

\* the identities a message lists
ListedIn(message) == {message[k].id : k \in 1..Len(message)}

\* the identities listed in any signal of the last call on c
Listed(c) == UNION {ListedIn(Signals(c)[k]) : k \in 1..Len(Signals(c))}

\* the identities of the tensors that are alive
LiveTensors == {heap[k].id : k \in {j \in 1..Len(heap) : heap[j].kind = "tensor"}}

\* the last call on c was a check_leaks call on a baselined checker
Checked(c) == out[c].op = "check_leaks" /\ ~out[c].first

\* the registry of c has an entry with the identity and current shape of live i
Matched(c, i) ==
    i \in DOMAIN excluded_tensors[c] /\ excluded_tensors[c][i] = ObjAt(i).shape

\* C1: after baselining, a check_leaks call whose scan count differs from the
\* baseline size signals one message that lists every non-excluded tensor
\* allocated after the baseline and still alive.
C1_ReportsEveryNewTensor ==
    \A c \in Checkers :
        (Checked(c) /\ Len(get_tensors) # Cardinality(original_tensors[c][1]))
        => LET new == {i \in fresh[c] : ~Matched(c, i)}
           IN new # {} =>
                  \E k \in 1..Len(Signals(c)) : new \subseteq ListedIn(Signals(c)[k])

\* C2: the first check_leaks call raises nothing, warns nothing and records the
\* identities of the scanned tensors as the baseline.
C2_FirstCallOnlyBaselines ==
    \A c \in Checkers :
        (out[c].op = "check_leaks" /\ out[c].first)
        => /\ out[c].raised = None
           /\ out[c].warnings = <<>>
           /\ original_tensors[c] = Some(LiveTensors)

\* a first call made with tensors alive and an exclusion registered, in each mode
C2_Witness ==
    /\ out["a"].op = "check_leaks" /\ out["a"].first
    /\ Len(heap) >= 2
    /\ excluded_tensors["a"] # EmptyDict
    /\ ~error_on_leak["a"]

\* C3: a tensor excluded before the call, with the shape it had when it was
\* excluded, is listed in no report of the call; when every new tensor is such
\* a tensor the call signals nothing.
C3_ExcludedNeverListed ==
    \A c \in Checkers :
        Checked(c)
        => LET kept == {i \in DOMAIN exclAt[c] : exclAt[c][i] = ObjAt(i).shape}
           IN /\ kept \cap Listed(c) = {}
              /\ (LiveTensors \ original_tensors[c][1]) \subseteq kept => Signals(c) = <<>>

\* the diff ran over a scan whose only new tensor is excluded, and was silent
C3_Witness ==
    /\ Checked("a")
    /\ Len(heap) # Cardinality(original_tensors["a"][1])
    /\ \E i \in DOMAIN exclAt["a"] :
           /\ exclAt["a"][i] = ObjAt(i).shape
           /\ LiveTensors \ original_tensors["a"][1] = {i}
    /\ Signals("a") = <<>>

\* C4: a live tensor outside the baseline that was excluded and now has another
\* shape than when it was excluded is listed by the next check_leaks call.
C4_ReshapedIsReported ==
    \A c \in Checkers :
        Checked(c)
        => \A i \in DOMAIN exclAt[c] :
               (i \notin original_tensors[c][1] /\ exclAt[c][i] # ObjAt(i).shape)
               => i \in Listed(c)

\* C5: given the same heap and the same calls, the error-mode checker raises
\* exactly when the warning-mode checker warns, and both list the same tensors.
C5_ModesAgree ==
    (out["a"].op = "check_leaks" /\ out["b"].op = "check_leaks")
    => /\ out["a"].raised # None <=> out["b"].warnings # <<>>
       /\ out["a"].warnings = <<>> /\ out["b"].raised = None
       /\ Listed("a") = Listed("b")

\* C6: one check_leaks call invokes the reporter at most once, and then with
\* every leak of the scan.
C6_OneReportPerCall ==
    \A c \in Checkers :
        Checked(c)
        => /\ Len(Signals(c)) <= 1
           /\ Signals(c) # <<>> =>
                  ListedIn(Signals(c)[1]) =
                      {i \in LiveTensors \ original_tensors[c][1] : ~Matched(c, i)}

\* C7: once set, original_tensors never changes, and the value it is set to is
\* the set of identities scanned by the call that sets it.
C7_BaselineSingleAssignment ==
    [][\A c \in Checkers :
          /\ original_tensors[c] # None => original_tensors'[c] = original_tensors[c]
          /\ (original_tensors[c] = None /\ original_tensors'[c] # None)
                 => original_tensors'[c] = Some(LiveTensors)]_vars

\* a verifying call has run on a heap that differs from the baseline
C7_Witness ==
    /\ Checked("a")
    /\ original_tensors["a"][1] # LiveTensors
    /\ original_tensors["a"][1] # {}
    /\ Signals("a") # <<>>

\* C8: every tensor a report lists is alive, has an identity outside the
\* baseline and has no registry entry with its identity and current shape, and
\* is listed with its current shape; with every baseline tensor alive and
\* exactly one new tensor without such an entry, the reports list exactly it.
C8_NoFalsePositives ==
    \A c \in Checkers :
        Checked(c)
        => /\ \A i \in Listed(c) :
                  /\ i \in LiveTensors
                  /\ i \notin original_tensors[c][1]
                  /\ ~Matched(c, i)
           /\ \A k \in 1..Len(Signals(c)) : \A j \in 1..Len(Signals(c)[k]) :
                  LET e == Signals(c)[k][j]
                  IN e.id \in LiveTensors /\ e.shape = ObjAt(e.id).shape
           /\ \A D \in LiveTensors :
                  (/\ original_tensors[c][1] \subseteq LiveTensors
                   /\ {i \in LiveTensors \ original_tensors[c][1] : ~Matched(c, i)} = {D})
                  => (Signals(c) # <<>> /\ Listed(c) = {D})

\* baseline {A, B, C}, all alive, and one new tensor D: the report lists D
C8_Witness ==
    /\ Checked("a")
    /\ Cardinality(original_tensors["a"][1]) = 3
    /\ original_tensors["a"][1] \subseteq LiveTensors
    /\ Len(heap) = 4
    /\ Cardinality(Listed("a")) = 1

\* C9: a check_leaks call that directly follows a check_leaks call on a
\* baselined checker raises and warns what that call did.
C9_RepeatedCheckSameOutcome ==
    [][\A c \in Checkers :
          (Checked(c) /\ out'[c].op = "check_leaks")
          => /\ out'[c].raised = out[c].raised
             /\ out'[c].warnings = out[c].warnings
             /\ original_tensors'[c] = original_tensors[c]]_vars

\* the second of two verifying calls in a row, both signalling
C9_Witness ==
    /\ Checked("a")
    /\ out["a"].again
    /\ Signals("a") # <<>>

\* C10: exclude_tensors_from_report sets the entry of every argument to its
\* current shape and leaves the other entries as they were; no step removes
\* an entry.
C10_ExcludeSetsEntries ==
    [][\A c \in Checkers :
          /\ DOMAIN excluded_tensors[c] \subseteq DOMAIN excluded_tensors'[c]
          /\ out'[c].op = "exclude"
                 => /\ DOMAIN excluded_tensors'[c] =
                           DOMAIN excluded_tensors[c] \cup out'[c].args
                    /\ \A i \in out'[c].args :
                           excluded_tensors'[c][i] = ObjAt(i).shape
                    /\ \A i \in DOMAIN excluded_tensors[c] \ out'[c].args :
                           excluded_tensors'[c][i] = excluded_tensors[c][i]
          /\ out'[c].op # "exclude"
                 => excluded_tensors'[c] = excluded_tensors[c]]_vars

\* an exclude call on a baselined checker that replaced one entry and kept
\* another
C10_Witness ==
    /\ out["a"].op = "exclude"
    /\ original_tensors["a"] # None
    /\ out["a"].replaced # {}
    /\ DOMAIN excluded_tensors["a"] \ out["a"].args # {}

\* the fields of checker c
Fields(c) == <<original_tensors[c], excluded_tensors[c], error_on_leak[c]>>

\* C11: a call on one checker leaves the baseline, the registry, the policy
\* and the last outcome of the other as they were; the fields of a checker
\* change only in a call on that checker.
C11_InstancesIndependent ==
    [][\A c \in Checkers : \A d \in Checkers \ {c} :
          /\ (out'[c].op # "none" /\ <<out[c], Fields(c)>>' # <<out[c], Fields(c)>>)
                 => <<out[d], Fields(d)>>' = <<out[d], Fields(d)>>
          /\ Fields(d)' # Fields(d)
                 => (out'[d].op # "none" /\ out'[d] # out[d])]_vars

\* both checkers have been used: they hold different baselines and different
\* registries, and the last check on "a" reported a tensor that "b" excludes
C11_Witness ==
    /\ Checked("a") /\ Signals("a") # <<>>
    /\ original_tensors["b"] # None
    /\ original_tensors["b"] # original_tensors["a"]
    /\ \E i \in Listed("a") : Matched("b", i)

\* the identities, in enumeration order, of the live objects of the kinds K
IdsOfKinds(K) == IdsOf(SelectSeq(heap, LAMBDA o : o.kind \in K))

\* C12: no scan fails, whatever objects are on the heap: it passes over the
\* objects whose probe raises and returns every tensor, and the check_leaks
\* call that runs it does not fail either.
C12_ScanIsTotal ==
    /\ ~ScanFails
    /\ IdsOf(get_tensors) = IdsOfKinds({"tensor"})
    /\ \A c \in Checkers :
           out[c].op = "check_leaks"
           => /\ ~out[c].failed
              /\ original_tensors[c] # None
              /\ out[c].first => /\ out[c].printed = IdsOfKinds({"tensor"})
                                 /\ original_tensors[c] = Some(LiveTensors)

\* a first call scanned a heap that holds a hostile object before a tensor
C12_Witness ==
    /\ out["a"].op = "check_leaks" /\ out["a"].first
    /\ \E j, k \in 1..Len(heap) :
           j < k /\ heap[j].kind = "hostile" /\ heap[k].kind = "tensor"
    /\ out["a"].printed # <<>>

\* C15: the scan returns the tensors and the wrappers whose `data` is a
\* tensor, and nothing else: these are what the first check_leaks call prints
\* and records.
C15_ScanReturnsWrappers ==
    \A c \in Checkers :
        (out[c].op = "check_leaks" /\ out[c].first)
        => /\ out[c].printed = IdsOfKinds({"tensor", "wrapper"})
           /\ original_tensors[c] = Some(IdSet(SelectSeq(heap,
                  LAMBDA o : o.kind \in {"tensor", "wrapper"})))

\* C13: when the scan has as many tensors as the baseline has identities, a
\* check_leaks call on a baselined checker signals nothing.
C13_EqualCountSkipsDiff ==
    \A c \in Checkers :
        (Checked(c) /\ Cardinality(LiveTensors) = Cardinality(original_tensors[c][1]))
        => Signals(c) = <<>>

\* a silent call although a live tensor outside the baseline has no matching
\* registry entry
C13_Witness ==
    /\ Checked("a")
    /\ Cardinality(LiveTensors) = Cardinality(original_tensors["a"][1])
    /\ \E i \in LiveTensors \ original_tensors["a"][1] : ~Matched("a", i)
    /\ Signals("a") = <<>>

\* C14: is_excluded is true of a live tensor exactly when the registry has an
\* entry for its identity and that entry is its current shape.
C14_ExcludedIffIdAndShape ==
    \A c \in Checkers : \A i \in LiveTensors :
        is_excluded(c, ObjAt(i)) <=>
            \E j \in DOMAIN excluded_tensors[c] :
                j = i /\ excluded_tensors[c][j] = ObjAt(i).shape

\* a tensor that has the identity of a freed excluded tensor and another shape
\* is not excluded: the check lists it
C14_Witness ==
    /\ Checked("a")
    /\ \E i \in LiveTensors :
           /\ i \in DOMAIN excluded_tensors["a"]
           /\ i \notin DOMAIN exclAt["a"]
           /\ excluded_tensors["a"][i] # ObjAt(i).shape
           /\ ~is_excluded("a", ObjAt(i))
           /\ i \in Listed("a")

\* C16: a tensor allocated after the baseline at the identity of a freed
\* baseline tensor is never listed, and in a scan that holds such a tensor the
\* other new tensors, with identities outside the baseline and no matching
\* registry entry, are all listed.
C16_ReuseMissedOthersReported ==
    \A c \in Checkers :
        Checked(c)
        => LET reused == fresh[c] \cap original_tensors[c][1]
           IN /\ reused \cap Listed(c) = {}
              /\ reused # {} =>
                     \A j \in fresh[c] \ original_tensors[c][1] :
                         ~Matched(c, j) => j \in Listed(c)

\* C17: check_leaks changes neither the registry nor error_on_leak nor the
\* heap, and on a baselined checker not the baseline either, also when it
\* raises; exclude_tensors_from_report changes neither the baseline (None
\* stays None) nor error_on_leak nor the heap.
C17_FrameConditions ==
    [][\A c \in Checkers :
          /\ error_on_leak'[c] = error_on_leak[c]
          /\ (steps' # steps /\ out'[c].op = "check_leaks")
                 => /\ excluded_tensors'[c] = excluded_tensors[c]
                    /\ heap' = heap
                    /\ original_tensors[c] # None
                           => original_tensors'[c] = original_tensors[c]
          /\ (steps' # steps /\ out'[c].op = "exclude")
                 => /\ original_tensors'[c] = original_tensors[c]
                    /\ heap' = heap]_vars

\* a verifying call raised on a checker whose registry holds the entry of a
\* collected tensor
C17_Witness ==
    /\ Checked("a")
    /\ out["a"].raised # None
    /\ DOMAIN excluded_tensors["a"] \ LiveIds # {}

\* the new tensors of the scan that have no matching registry entry, in scan
\* order
LeaksInOrder(c) ==
    SelectSeq(SelectSeq(heap, LAMBDA o : o.kind = "tensor"),
              LAMBDA o : o.id \notin original_tensors[c][1] /\ ~Matched(c, o.id))

\* C18: in warning mode no check_leaks call raises; when the diff runs and
\* the scan holds new tensors without a matching registry entry, the last
\* warning lists exactly them, each once, in scan order, and otherwise the call
\* warns nothing.
C18_LastWarningListsAll ==
    \A c \in Checkers :
        (out[c].op = "check_leaks" /\ ~error_on_leak[c])
        => /\ out[c].raised = None
           /\ Checked(c) =>
                  IF /\ Cardinality(LiveTensors) # Cardinality(original_tensors[c][1])
                     /\ LeaksInOrder(c) # <<>>
                  THEN /\ out[c].warnings # <<>>
                       /\ out[c].warnings[Len(out[c].warnings)] =
                              [k \in 1..Len(LeaksInOrder(c)) |->
                                  [shape |-> LeaksInOrder(c)[k].shape,
                                   id |-> LeaksInOrder(c)[k].id]]
                  ELSE out[c].warnings = <<>>

\* a warning-mode call warned more than once; its last warning lists two
\* tensors and the scan also holds a tensor that is no leak
C18_Witness ==
    /\ Checked("a") /\ ~error_on_leak["a"]
    /\ Len(out["a"].warnings) >= 2
    /\ Len(out["a"].warnings[Len(out["a"].warnings)]) = 2
    /\ Len(heap) > 2

====
